---- MODULE Spec2Model ----
(***************************************************************************)
(* A model of DocsBuilder (docs/docs_build.py): the orchestration of the   *)
(* documentation build.  The state is what the builder and the commands it *)
(* runs act on: the builder's fields, the process working directory, the   *)
(* checked-out ref, the descriptor file, the versioned_code directory and  *)
(* the other extracted files.  Every step of an operation is one action.   *)
(***************************************************************************)
EXTENDS Integers, Sequences, FiniteSets, TLC

(***************************************************************************)
(* Bounds of the model.                                                    *)
(***************************************************************************)
\* longest versions.json shipped by the remote versions archive
MaxVersions == 2
\* how many helper calls (_load_all_versioned_docs, _load_files) one
\* process makes in succession
MaxCalls == 2
\* how many non-success results a warn-configured context hands back in
\* one process (each one is swallowed or checked by the caller)
MaxFailures == 1

(***************************************************************************)
(* Versions.  A tag is a dotted string; Version.from_string parses it into *)
(* its numeric fields and str() prints the fields back.                    *)
(***************************************************************************)
\* the release tags that exist on the code host
Tags == {"0.17.0", "0.18.0"}

AllTagStrs == {"0.17.0", "0.18.0", "0.18.1", "0.19.0"}

VersionFromString(s) ==
    CASE s = "0.17.0" -> [major |-> 0, minor |-> 17, patch |-> 0]
      [] s = "0.18.0" -> [major |-> 0, minor |-> 18, patch |-> 0]
      [] s = "0.18.1" -> [major |-> 0, minor |-> 18, patch |-> 1]
      [] OTHER        -> [major |-> 0, minor |-> 19, patch |-> 0]

VersionToString(v) == CHOOSE s \in AllTagStrs : VersionFromString(s) = v

NoVersion == [major |-> 0, minor |-> 0, patch |-> 0]

Range(seq) == {seq[k] : k \in 1..Len(seq)}

(***************************************************************************)
(* Directories.  A path is the sequence of its components.  The repository *)
(* holds docs/docusaurus (the site) and a sibling directory docs/other.    *)
(***************************************************************************)
DocusaurusDir == <<"repo", "docs", "docusaurus">>
OtherDir == <<"repo", "docs", "other">>
ExistingDirs == {<<"repo">>, <<"repo", "docs">>, DocusaurusDir, OtherDir}
StartDirs == {DocusaurusDir, OtherDir}

\* os.chdir(name): the directory the call would enter
ChdirTarget(dir, name) ==
    IF name = ".." THEN SubSeq(dir, 1, Len(dir) - 1) ELSE Append(dir, name)

\* the name create_version and _prepare come back to after os.chdir("..")
ReturnDirName == "docusaurus"

(***************************************************************************)
(* The descriptor file ./docs/components/_data.jsx.  It is a tracked file  *)
(* of the site, so it exists only under docs/docusaurus.                   *)
(***************************************************************************)
NoContent == [kind |-> "none", of |-> "none"]
EditedContent == [kind |-> "edited", of |-> "local"]

\* the blob of the descriptor a ref holds: tag 0.17.0 was cut from the
\* commit develop is at, every other ref has a descriptor of its own
BlobOf(ref) == IF ref \in {"develop", "c0", "0.17.0"} THEN "develop" ELSE ref

Committed(ref) == [kind |-> "committed", of |-> BlobOf(ref)]

\* the module create_version writes: release_version, min_python, max_python
GeneratedContent(version) == [kind |-> "generated", of |-> VersionToString(version)]

\* whether the relative path ./docs/components/_data.jsx resolves from dir
ReleaseVersionFileAt(dir) == dir = DocusaurusDir

(***************************************************************************)
(* versioned_code.  An entry is a directory version-<tag> or               *)
(* great_expectations-<tag>; its tree is the set of origins of its files   *)
(* and of the files of a great_expectations-<tag> directory nested in it.  *)
(***************************************************************************)
EntryNames == [prefix : {"version", "great_expectations"}, tag : Tags]

NoTree == [present |-> FALSE, files |-> {}, nested |-> {}]
TagTree == [present |-> TRUE, files |-> {"tag"}, nested |-> {}]
S3Tree == [present |-> TRUE, files |-> {"s3"}, nested |-> {}]
LocalTree == [present |-> TRUE, files |-> {"local"}, nested |-> {}]

EmptyListing == [e \in EntryNames |-> NoTree]

\* ZipFile.extractall over an existing directory: files are added to it
MergeTree(old, new) ==
    IF ~old.present THEN new
    ELSE [present |-> TRUE, files |-> old.files \cup new.files,
          nested |-> old.nested \cup new.nested]

Listing(code) == {e \in EntryNames : code[e].present}

VersionEntry(tag) == [prefix |-> "version", tag |-> tag]
RepoEntry(tag) == [prefix |-> "great_expectations", tag |-> tag]

(***************************************************************************)
(* The remote versions archive: versions.json and the versioned_code       *)
(* directories it ships (the artifact is zipped with versioned_code in it).*)
(***************************************************************************)
SeqsUpTo(S, n) == UNION {[1..k -> S] : k \in 0..n}

Archives == [versions : SeqsUpTo(Tags, MaxVersions), ships : SUBSET Tags]

\* the local versioned_code a run may find: none, or a stale one
PriorListings ==
    {EmptyListing,
     [e \in EntryNames |-> IF e.tag = "0.17.0" THEN LocalTree ELSE NoTree]}

(***************************************************************************)
(* Refs and commands.                                                      *)
(***************************************************************************)
NoRef == "none"
Refs == {"develop", "c0"} \cup Tags

Cmd(name, arg) == [name |-> name, arg |-> arg]
NoCmd == Cmd("none", "")
NoError == [kind |-> "none", cmd |-> NoCmd]

\* git rev-parse prints the answer and a newline; str.strip() drops the
\* whitespace at both ends
IsSpace(c) == c \in {" ", "\n"}

RECURSIVE LStrip(_)
LStrip(s) == IF s # <<>> /\ IsSpace(Head(s)) THEN LStrip(Tail(s)) ELSE s

RECURSIVE RStrip(_)
RStrip(s) ==
    IF s # <<>> /\ IsSpace(s[Len(s)]) THEN RStrip(SubSeq(s, 1, Len(s) - 1)) ELSE s

Strip(s) == RStrip(LStrip(s))

VARIABLES
    \* the builder's fields
    current_directory, is_local, warn, current_commit, current_branch,
    \* the process
    phase, op, ip, idx, calls, cwd, version, versions, old_version_file,
    error,
    \* git
    head, prev,
    \* the file system
    desc, codeExists, code, versioned_docs, artifact,
    \* the remote versions archive
    archive,
    \* history: what ran, what reported non-success, the state at entry
    trace, firstFail, swallowed, lastRun, entry, loads, before

vars == <<current_directory, is_local, warn, current_commit, current_branch,
          phase, op, ip, idx, calls, cwd, version, versions, old_version_file,
          error, head, prev, desc, codeExists, code, versioned_docs,
          artifact, archive, trace, firstFail, swallowed, lastRun, entry,
          loads, before>>

builder == <<current_directory, is_local, warn, current_commit, current_branch>>
git == <<head, prev>>
files == <<codeExists, code, versioned_docs, artifact>>
locals == <<idx, version, versions, old_version_file>>

(***************************************************************************)
(* The steps of each operation, in the order the code runs them.          *)
(***************************************************************************)
BuildDocsSteps ==
    <<"load_all_versioned_docs", "invoke_api_docs", "yarn_build">>

LoadFilesSteps == <<"load_all_versioned_docs", "load_files_loop">>

PrepareSteps ==
    LoadFilesSteps \o
    <<"chdir_up", "prepare_prior_versions", "chdir_back", "invoke_api_docs",
      "checkout_correct_branch">>

BuildDocsLocallySteps == PrepareSteps \o <<"yarn_start">>

\* create_version with the duplicate check moved after the tag checkout
CreateVersionStepsLateCheck ==
    <<"load_all_versioned_docs", "checkout_version", "check_version",
      "read_prior_release_version_file", "write_release_version",
      "docs_version", "load_versioned_code", "chdir_up",
      "prepare_prior_versions", "chdir_back", "zip",
      "restore_release_version", "checkout_previous", "invoke_api_docs",
      "yarn_build">>

CreateVersionSteps ==
    <<"load_all_versioned_docs", "check_version", "checkout_version",
      "read_prior_release_version_file", "write_release_version",
      "docs_version", "load_versioned_code", "chdir_up",
      "prepare_prior_versions", "chdir_back", "zip",
      "restore_release_version", "checkout_previous", "invoke_api_docs",
      "yarn_build">>

HelperOps == {"load_all_versioned_docs", "load_files"}
Ops == {"build_docs", "build_docs_locally", "create_version"} \cup HelperOps

Program(o) ==
    CASE o = "build_docs" -> BuildDocsSteps
      [] o = "build_docs_locally" -> BuildDocsLocallySteps
      [] o = "create_version" -> CreateVersionSteps
      [] o = "load_files" -> LoadFilesSteps
      [] OTHER -> <<"load_all_versioned_docs">>

\* the step the running operation is at
Cur == IF phase = "running" THEN Program(op)[ip] ELSE "none"

(***************************************************************************)
(* Running a command.  The context either raises when the command reports  *)
(* non-success or, configured with warn, hands the failed result back.     *)
(***************************************************************************)
Result(ok, stdout) == [ok |-> ok, stdout |-> stdout]

\* truth value of a result object: a result is true exactly when it is ok
Truthy(result) == result.ok

\* _run, given the result the context returned
Run(result) ==
    IF ~Truthy(result) THEN [outcome |-> "none", value |-> <<>>]
    ELSE IF ~result.ok THEN [outcome |-> "raise", value |-> <<>>]
    ELSE [outcome |-> "string", value |-> Strip(result.stdout)]

\* a stripped one-line output as the text put into a later command
Text(out) == IF out = <<>> THEN "" ELSE out[1]

NoFail == [cmd |-> NoCmd, pos |-> 0]
NoRun == [cmd |-> NoCmd, ok |-> TRUE, outcome |-> "none"]

Entry(step, arg, ok) == [step |-> step, arg |-> arg, ok |-> ok]

NoteFail(cmd) ==
    firstFail' = IF firstFail = NoFail
                 THEN [cmd |-> cmd, pos |-> Len(trace) + 1] ELSE firstFail

\* the step returns and the operation goes on (or returns, after its last step)
Proceed(step, arg, ok) ==
    /\ trace' = Append(trace, Entry(step, arg, ok))
    /\ ip' = ip + 1
    /\ phase' = IF ip = Len(Program(op)) THEN "done" ELSE phase
    /\ error' = error

\* the step raises: nothing catches it, the process ends
Abort(step, arg, err) ==
    /\ trace' = Append(trace, Entry(step, arg, FALSE))
    /\ ip' = ip
    /\ phase' = "aborted"
    /\ error' = err

\* whether a command that reports non-success may be drawn now
MayFail == warn => swallowed < MaxFailures

\* self._context.run(cmd): the result is not looked at
DirectRun(step, cmd, ok) ==
    /\ ~ok => MayFail
    /\ IF ok THEN Proceed(step, cmd.arg, TRUE) /\ UNCHANGED <<firstFail, swallowed>>
       ELSE IF warn
            THEN Proceed(step, cmd.arg, FALSE) /\ NoteFail(cmd)
                 /\ swallowed' = swallowed + 1
            ELSE Abort(step, cmd.arg, [kind |-> "UnexpectedExit", cmd |-> cmd])
                 /\ NoteFail(cmd) /\ UNCHANGED swallowed
    /\ UNCHANGED lastRun

\* self._run(cmd)
ViaRun(step, cmd, ok) ==
    /\ ~ok => MayFail
    /\ IF ~ok /\ ~warn
       THEN /\ Abort(step, cmd.arg, [kind |-> "UnexpectedExit", cmd |-> cmd])
            /\ NoteFail(cmd) /\ UNCHANGED swallowed
            /\ lastRun' = [cmd |-> cmd, ok |-> FALSE, outcome |-> "context_raised"]
       ELSE LET r == Run(Result(ok, <<>>)) IN
            /\ lastRun' = [cmd |-> cmd, ok |-> ok, outcome |-> r.outcome]
            /\ IF ok THEN UNCHANGED <<firstFail, swallowed>>
               ELSE NoteFail(cmd) /\ swallowed' = swallowed + 1
            /\ IF r.outcome = "raise"
               THEN Abort(step, cmd.arg, [kind |-> "Failed to run command", cmd |-> cmd])
               ELSE Proceed(step, cmd.arg, ok)

(***************************************************************************)
(* git checkout.  A tracked file that differs between the two refs is      *)
(* rewritten when it is unmodified, carried over when the refs agree on    *)
(* it, and makes the checkout fail when it is modified.                    *)
(***************************************************************************)
CanCheckout(ref) ==
    /\ ref \in Refs
    /\ Committed(head) = Committed(ref) \/ desc = Committed(head)

DescAfterCheckout(ref) ==
    IF Committed(head) = Committed(ref) THEN desc ELSE Committed(ref)

Checkout(ref, ok) ==
    /\ ok => CanCheckout(ref)
    /\ IF ok THEN /\ head' = ref
                  /\ prev' = head
                  /\ desc' = DescAfterCheckout(ref)
       ELSE UNCHANGED <<head, prev, desc>>

(***************************************************************************)
(* Init: a builder is about to be constructed in its working directory.    *)
(***************************************************************************)
PriorStates ==
    {[codeExists |-> FALSE, code |-> EmptyListing, docs |-> {}]}
    \cup [codeExists : {TRUE}, code : PriorListings, docs : {{"local"}}]

NoArtifact == [made |-> FALSE, head |-> NoRef, desc |-> NoContent]

Snapshot ==
    [head |-> head, prev |-> prev, desc |-> desc, cwd |-> cwd,
     codeExists |-> codeExists, code |-> code,
     versioned_docs |-> versioned_docs, pos |-> Len(trace)]

Init ==
    /\ current_directory \in StartDirs
    /\ cwd = current_directory
    /\ is_local \in BOOLEAN
    /\ warn \in BOOLEAN
    /\ current_commit = ""
    /\ current_branch = ""
    /\ phase = "new"
    /\ op = "none"
    /\ ip = 0
    /\ idx = 0
    /\ calls = 0
    /\ version = NoVersion
    /\ versions = <<>>
    /\ old_version_file = NoContent
    /\ error = NoError
    /\ head = "develop"
    /\ prev = NoRef
    /\ desc \in {Committed("develop"), EditedContent}
    /\ \E p \in PriorStates :
         /\ codeExists = p.codeExists
         /\ code = p.code
         /\ versioned_docs = p.docs
    /\ artifact = NoArtifact
    /\ archive \in Archives
    /\ trace = <<>>
    /\ firstFail = NoFail
    /\ swallowed = 0
    /\ lastRun = NoRun
    /\ entry = [head |-> "develop", prev |-> NoRef, desc |-> desc, cwd |-> cwd,
                codeExists |-> codeExists, code |-> code,
                versioned_docs |-> versioned_docs, pos |-> 0]
    /\ loads = <<>>
    /\ before = code

(***************************************************************************)
(* __init__: the commit and the branch are read with _run_and_get_output,  *)
(* which asserts that _run returned a non-empty string.                    *)
(***************************************************************************)
CommitOf(ref) == IF ref = "develop" THEN "c0" ELSE ref

RevParse(cmd, stdout, ok, next) ==
    /\ ~ok => MayFail
    /\ IF ~ok /\ ~warn
       THEN /\ phase' = "aborted"
            /\ error' = [kind |-> "UnexpectedExit", cmd |-> cmd]
            /\ lastRun' = [cmd |-> cmd, ok |-> FALSE, outcome |-> "context_raised"]
            /\ NoteFail(cmd) /\ UNCHANGED swallowed
       ELSE LET r == Run(Result(ok, stdout)) IN
            /\ lastRun' = [cmd |-> cmd, ok |-> ok, outcome |-> r.outcome]
            /\ IF ok THEN UNCHANGED <<firstFail, swallowed>>
               ELSE NoteFail(cmd) /\ swallowed' = swallowed + 1
            /\ IF r.outcome = "raise"
               THEN /\ phase' = "aborted"
                    /\ error' = [kind |-> "Failed to run command", cmd |-> cmd]
               ELSE IF r.value = <<>>
               THEN /\ phase' = "aborted"
                    /\ error' = [kind |-> "AssertionError", cmd |-> NoCmd]
               ELSE /\ phase' = next
                    /\ error' = error
    /\ trace' = Append(trace, Entry(cmd.name, "", ok))

RevParseCommit ==
    /\ phase = "new"
    /\ \E ok \in BOOLEAN :
         LET cmd == Cmd("git rev-parse HEAD", "")
             out == <<CommitOf(head), "\n">> IN
         /\ RevParse(cmd, out, ok, "init")
         /\ current_commit' = IF phase' = "init" THEN Text(Strip(out)) ELSE current_commit
    /\ UNCHANGED <<current_directory, is_local, warn, current_branch, op, ip,
                   calls, cwd, locals, git, desc, files, archive, entry, loads,
                   before>>

RevParseBranch ==
    /\ phase = "init"
    /\ \E ok \in BOOLEAN :
         LET cmd == Cmd("git rev-parse --abbrev-ref HEAD", "")
             out == <<head, "\n">> IN
         /\ RevParse(cmd, out, ok, "ready")
         /\ current_branch' = IF phase' = "ready" THEN Text(Strip(out)) ELSE current_branch
    /\ UNCHANGED <<current_directory, is_local, warn, current_commit, op, ip,
                   calls, cwd, locals, git, desc, files, archive, entry, loads,
                   before>>

(***************************************************************************)
(* A method of the builder is called.  A process calls one public          *)
(* operation; the helpers can be called again after they return.           *)
(***************************************************************************)
Begin ==
    /\ \E o \in Ops, v \in Tags :
         /\ \/ phase = "ready" /\ calls = 0
            \/ /\ phase = "done"
               /\ op \in HelperOps
               /\ o \in HelperOps
               /\ calls < MaxCalls
         /\ o # "create_version" => v = "0.17.0"
         /\ op' = o
         /\ version' = IF o = "create_version" THEN VersionFromString(v) ELSE NoVersion
    /\ phase' = "running"
    /\ ip' = 1
    /\ idx' = 1
    /\ calls' = calls + 1
    /\ entry' = Snapshot
    /\ UNCHANGED <<builder, cwd, versions, old_version_file, error, git, desc,
                   files, archive, trace, firstFail, swallowed, lastRun, loads,
                   before>>

(***************************************************************************)
(* _load_all_versioned_docs                                                *)
(***************************************************************************)
\* _load_all_versioned_docs without the rmtree: the old directory is kept
KeptCode(c, here) == c

\* shutil.rmtree("versioned_code") and os.mkdir("versioned_code"): the path
\* is relative, so it is current_directory's only when the process is there
CleanedCode(c, here) == IF here THEN EmptyListing ELSE c

\* zip_ref.extractall(self._current_directory) of the versions archive
ExtractVersionsArchive(c, a) ==
    [e \in EntryNames |->
        IF e.prefix = "version" /\ e.tag \in a.ships
        THEN MergeTree(c[e], S3Tree) ELSE c[e]]

\* [Version.from_string(x) for x in json.loads(versions_json)]
ParseVersions(strs) == [k \in 1..Len(strs) |-> VersionFromString(strs[k])]

nonCommand == <<firstFail, swallowed, lastRun>>

LoadAllVersionedDocs ==
    /\ Cur = "load_all_versioned_docs"
    /\ \E fetched \in BOOLEAN :
         LET here == cwd = current_directory
             cleaned == CleanedCode(code, here) IN
         IF fetched
         THEN /\ code' = ExtractVersionsArchive(cleaned, archive)
              /\ codeExists' = TRUE
              /\ versioned_docs' = versioned_docs \cup Range(archive.versions)
              /\ versions' = ParseVersions(archive.versions)
              /\ loads' = Append(loads, [pos |-> Len(trace) + 1, code |-> code',
                                         versions |-> versions'])
              /\ Proceed("load_all_versioned_docs", "", TRUE)
         ELSE /\ code' = cleaned
              /\ codeExists' = (here \/ codeExists)
              /\ Abort("load_all_versioned_docs", "",
                       [kind |-> "download", cmd |-> NoCmd])
              /\ UNCHANGED <<versioned_docs, versions, loads>>
    /\ UNCHANGED <<builder, op, calls, cwd, idx, version, old_version_file, git,
                   desc, artifact, archive, entry, before, nonCommand>>

(***************************************************************************)
(* _load_versioned_code                                                    *)
(***************************************************************************)
\* a copy in place of the move: the extracted directory stays behind
ShutilCopy(c, src, dst) ==
    IF ~c[dst].present
    THEN [c EXCEPT ![dst] = c[src]]
    ELSE [c EXCEPT ![dst].nested = c[src].files]

\* shutil.move(old_location, new_location): a rename when the destination
\* does not exist, a move INTO the destination when it is a directory
ShutilMove(c, src, dst) ==
    IF ~c[dst].present
    THEN [c EXCEPT ![dst] = c[src], ![src] = NoTree]
    ELSE [c EXCEPT ![dst].nested = c[src].files, ![src] = NoTree]

\* shutil.move raises when the destination already holds the moved name
MoveRaises(c, dst) == c[dst].present /\ c[dst].nested # {}

LoadCode(step, tag, fetched, Returns) ==
    LET extracted == [code EXCEPT ![RepoEntry(tag)] = MergeTree(@, TagTree)] IN
    /\ before' = code
    /\ IF ~fetched
       THEN /\ UNCHANGED <<code, codeExists>>
            /\ Abort(step, tag, [kind |-> "download", cmd |-> NoCmd])
       ELSE IF MoveRaises(extracted, VersionEntry(tag))
       THEN /\ code' = extracted
            /\ codeExists' = TRUE
            /\ Abort(step, tag, [kind |-> "shutil.Error", cmd |-> NoCmd])
       ELSE /\ code' = ShutilMove(extracted, RepoEntry(tag), VersionEntry(tag))
            /\ codeExists' = TRUE
            /\ Returns

LoadVersionedCode ==
    /\ Cur = "load_versioned_code"
    /\ \E fetched \in BOOLEAN :
         LET tag == VersionToString(version) IN
         LoadCode("load_versioned_code", tag, fetched,
                  Proceed("load_versioned_code", tag, TRUE))
    /\ UNCHANGED <<builder, op, calls, cwd, locals, git, desc, versioned_docs,
                   artifact, archive, entry, loads, nonCommand>>

(***************************************************************************)
(* _load_files: for version in versions: self._load_versioned_code(version)*)
(***************************************************************************)
LoadFilesLoop ==
    /\ Cur = "load_files_loop"
    /\ idx <= Len(versions)
    /\ \E fetched \in BOOLEAN :
         LET tag == VersionToString(versions[idx]) IN
         LoadCode("load_versioned_code", tag, fetched,
                  /\ trace' = Append(trace, Entry("load_versioned_code", tag, TRUE))
                  /\ UNCHANGED <<ip, phase, error>>)
    /\ idx' = idx + 1
    /\ UNCHANGED <<builder, op, calls, cwd, version, versions, old_version_file,
                   git, desc, versioned_docs, artifact, archive, entry, loads,
                   nonCommand>>

\* return versions
LoadFilesReturn ==
    /\ Cur = "load_files_loop"
    /\ idx > Len(versions)
    /\ ip' = ip + 1
    /\ phase' = IF ip = Len(Program(op)) THEN "done" ELSE phase
    /\ UNCHANGED <<builder, op, calls, cwd, locals, error, git, desc, files,
                   archive, trace, entry, loads, before, nonCommand>>

(***************************************************************************)
(* create_version                                                          *)
(***************************************************************************)
\* if version in versions: raise Exception("Version ... already exists")
AlreadyExists(v, vs) == v \in Range(vs)

CheckVersion ==
    /\ Cur = "check_version"
    /\ IF AlreadyExists(version, versions)
       THEN Abort("check_version", VersionToString(version),
                  [kind |-> "Version already exists", cmd |-> NoCmd])
       ELSE Proceed("check_version", VersionToString(version), TRUE)
    /\ UNCHANGED <<builder, op, calls, cwd, locals, git, desc, files, archive,
                   entry, loads, before, nonCommand>>

CheckoutVersion ==
    /\ Cur = "checkout_version"
    /\ \E ok \in BOOLEAN :
         LET tag == VersionToString(version) IN
         /\ Checkout(tag, ok)
         /\ DirectRun("checkout_version", Cmd("git checkout", tag), ok)
    /\ UNCHANGED <<builder, op, calls, cwd, locals, files, archive, entry,
                   loads, before>>

FileNotFound == [kind |-> "FileNotFoundError", cmd |-> NoCmd]

ReadPriorReleaseVersionFile ==
    /\ Cur = "read_prior_release_version_file"
    /\ IF ReleaseVersionFileAt(cwd)
       THEN /\ old_version_file' = desc
            /\ Proceed("read_prior_release_version_file", "", TRUE)
       ELSE /\ UNCHANGED old_version_file
            /\ Abort("read_prior_release_version_file", "", FileNotFound)
    /\ UNCHANGED <<builder, op, calls, cwd, idx, version, versions, git, desc,
                   files, archive, entry, loads, before, nonCommand>>

WriteReleaseVersion ==
    /\ Cur = "write_release_version"
    /\ IF ReleaseVersionFileAt(cwd)
       THEN /\ desc' = GeneratedContent(version)
            /\ Proceed("write_release_version", "", TRUE)
       ELSE /\ UNCHANGED desc
            /\ Abort("write_release_version", "", FileNotFound)
    /\ UNCHANGED <<builder, op, calls, cwd, locals, git, files, archive, entry,
                   loads, before, nonCommand>>

DocsVersion ==
    /\ Cur = "docs_version"
    /\ \E ok \in BOOLEAN :
         LET tag == VersionToString(version) IN
         /\ versioned_docs' = IF ok THEN versioned_docs \cup {tag} ELSE versioned_docs
         /\ DirectRun("docs_version", Cmd("yarn docusaurus docs:version", tag), ok)
    /\ UNCHANGED <<builder, op, calls, cwd, locals, git, desc, codeExists, code,
                   artifact, archive, entry, loads, before>>

\* os.chdir("..")
ChdirUp ==
    /\ Cur = "chdir_up"
    /\ cwd' = ChdirTarget(cwd, "..")
    /\ Proceed("chdir_up", "", TRUE)
    /\ UNCHANGED <<builder, op, calls, locals, git, desc, files, archive, entry,
                   loads, before, nonCommand>>

\* prepare_prior_version(version), prepare_prior_versions(versions_loaded):
\* code outside this file, which may raise
PreparePriorVersions ==
    /\ Cur = "prepare_prior_versions"
    /\ \E raised \in BOOLEAN :
         IF raised
         THEN Abort("prepare_prior_versions", "",
                    [kind |-> "prepare_prior_versions", cmd |-> NoCmd])
         ELSE Proceed("prepare_prior_versions", "", TRUE)
    /\ UNCHANGED <<builder, op, calls, cwd, locals, git, desc, files, archive,
                   entry, loads, before, nonCommand>>

\* os.chdir("docusaurus")
ChdirBack ==
    /\ Cur = "chdir_back"
    /\ LET target == ChdirTarget(cwd, ReturnDirName) IN
       IF target \in ExistingDirs
       THEN /\ cwd' = target
            /\ Proceed("chdir_back", "", TRUE)
       ELSE /\ UNCHANGED cwd
            /\ Abort("chdir_back", "", FileNotFound)
    /\ UNCHANGED <<builder, op, calls, locals, git, desc, files, archive, entry,
                   loads, before, nonCommand>>

Zip ==
    /\ Cur = "zip"
    /\ \E ok \in BOOLEAN :
         /\ artifact' = IF ok THEN [made |-> TRUE, head |-> head, desc |-> desc]
                        ELSE artifact
         /\ DirectRun("zip", Cmd("zip -r", "oss_docs_versions.zip"), ok)
    /\ UNCHANGED <<builder, op, calls, cwd, locals, git, desc, codeExists, code,
                   versioned_docs, archive, entry, loads, before>>

\* the restore writing the generated module again instead of the old text
RewrittenContent(old) == GeneratedContent(version)

\* self._write_release_version(old_version_file)
RestoredContent(old) == old

RestoreReleaseVersion ==
    /\ Cur = "restore_release_version"
    /\ IF ReleaseVersionFileAt(cwd)
       THEN /\ desc' = RestoredContent(old_version_file)
            /\ Proceed("restore_release_version", "", TRUE)
       ELSE /\ UNCHANGED desc
            /\ Abort("restore_release_version", "", FileNotFound)
    /\ UNCHANGED <<builder, op, calls, cwd, locals, git, files, archive, entry,
                   loads, before, nonCommand>>

\* git checkout -
CheckoutPrevious ==
    /\ Cur = "checkout_previous"
    /\ \E ok \in BOOLEAN :
         /\ Checkout(prev, ok)
         /\ DirectRun("checkout_previous", Cmd("git checkout", "-"), ok)
    /\ UNCHANGED <<builder, op, calls, cwd, locals, files, archive, entry,
                   loads, before>>

(***************************************************************************)
(* The steps shared by the operations.                                     *)
(***************************************************************************)
InvokeApiDocs ==
    /\ Cur = "invoke_api_docs"
    /\ \E ok \in BOOLEAN :
         ViaRun("invoke_api_docs", Cmd("(cd ../../; invoke api-docs)", ""), ok)
    /\ UNCHANGED <<builder, op, calls, cwd, locals, git, desc, files, archive,
                   entry, loads, before>>

YarnBuild ==
    /\ Cur = "yarn_build"
    /\ \E ok \in BOOLEAN : DirectRun("yarn_build", Cmd("yarn build", ""), ok)
    /\ UNCHANGED <<builder, op, calls, cwd, locals, git, desc, files, archive,
                   entry, loads, before>>

\* the ref _checkout_correct_branch checks out
CorrectRef == IF is_local THEN current_branch ELSE current_commit

CheckoutCorrectBranch ==
    /\ Cur = "checkout_correct_branch"
    /\ \E ok \in BOOLEAN :
         /\ Checkout(CorrectRef, ok)
         /\ ViaRun("checkout_correct_branch", Cmd("git checkout", CorrectRef), ok)
    /\ UNCHANGED <<builder, op, calls, cwd, locals, files, archive, entry,
                   loads, before>>

\* yarn start serves until it is stopped: it returns only when it fails
YarnStart ==
    /\ Cur = "yarn_start"
    /\ \E ok \in BOOLEAN :
         IF ok
         THEN /\ trace' = Append(trace, Entry("yarn_start", "", TRUE))
              /\ phase' = "serving"
              /\ UNCHANGED <<ip, error, firstFail, swallowed, lastRun>>
         ELSE DirectRun("yarn_start", Cmd("yarn start", ""), FALSE)
    /\ UNCHANGED <<builder, op, calls, cwd, locals, git, desc, files, archive,
                   entry, loads, before>>

Next ==
    \/ RevParseCommit
    \/ RevParseBranch
    \/ Begin
    \/ LoadAllVersionedDocs
    \/ LoadVersionedCode
    \/ LoadFilesLoop
    \/ LoadFilesReturn
    \/ CheckVersion
    \/ CheckoutVersion
    \/ ReadPriorReleaseVersionFile
    \/ WriteReleaseVersion
    \/ DocsVersion
    \/ ChdirUp
    \/ PreparePriorVersions
    \/ ChdirBack
    \/ Zip
    \/ RestoreReleaseVersion
    \/ CheckoutPrevious
    \/ InvokeApiDocs
    \/ YarnBuild
    \/ CheckoutCorrectBranch
    \/ YarnStart

Spec == Init /\ [][Next]_vars

(***************************************************************************)
(* Vocabulary of the properties.                                           *)
(***************************************************************************)
\* the steps the running (or last) call has executed, in order
Ran == SubSeq(trace, entry.pos + 1, Len(trace))

\* position in Ran of the first execution of a step, 0 when it has not run
Pos(step) ==
    IF \E k \in 1..Len(Ran) : Ran[k].step = step
    THEN CHOOSE k \in 1..Len(Ran) :
            /\ Ran[k].step = step
            /\ \A j \in 1..(k - 1) : Ran[j].step # step
    ELSE 0

\* if b has run, a ran before it
Precedes(a, b) == Pos(b) > 0 => (Pos(a) > 0 /\ Pos(a) < Pos(b))

Last == trace[Len(trace)]

\* _load_versioned_code has just returned
CodeLoaded == trace # <<>> /\ Last.step = "load_versioned_code" /\ Last.ok

\* the duplicate check of create_version has just raised
DuplicateRejected == error.kind = "Version already exists"

\* create_version returned and no command reported non-success
CreatedVersion == op = "create_version" /\ phase = "done" /\ firstFail = NoFail

\* what the versions archive alone puts into versioned_code
ArchiveListing == {VersionEntry(t) : t \in archive.ships}

(***************************************************************************)
(* C1.  As stated: when create_version rejects a duplicate version,        *)
(* versioned_code, the other extracted files, the descriptor and the       *)
(* checked-out ref are exactly as they were when create_version was called.*)
(***************************************************************************)
C1_NothingMutatedAtRejection ==
    DuplicateRejected =>
        /\ code = entry.code
        /\ codeExists = entry.codeExists
        /\ versioned_docs = entry.versioned_docs
        /\ desc = entry.desc
        /\ head = entry.head

(***************************************************************************)
(* C1, amended.  When create_version rejects a duplicate version, only     *)
(* _load_all_versioned_docs has run: the checked-out ref, the descriptor   *)
(* and the working directory are as at the call and no command has run,    *)
(* while versioned_code has been deleted and rebuilt from the archive and  *)
(* the archive's other files have been extracted.                          *)
(***************************************************************************)
C1_OnlyLoadBeforeRejection ==
    DuplicateRejected =>
        /\ head = entry.head
        /\ prev = entry.prev
        /\ desc = entry.desc
        /\ cwd = entry.cwd
        /\ [k \in 1..Len(Ran) |-> Ran[k].step]
              = <<"load_all_versioned_docs", "check_version">>
        /\ codeExists
        /\ Listing(code) = ArchiveListing
        /\ \A e \in ArchiveListing : code[e] = S3Tree
        /\ versioned_docs = entry.versioned_docs \cup Range(archive.versions)

C1_Witness ==
    /\ DuplicateRejected
    /\ Listing(entry.code) # Listing(code)
    /\ versioned_docs # entry.versioned_docs

(***************************************************************************)
(* C2.  After a create_version run in which every step succeeds, the       *)
(* descriptor file holds its pre-run contents and the checked-out ref is   *)
(* the one that was checked out before the run.                            *)
(***************************************************************************)
C2_RestoredOnSuccess ==
    CreatedVersion => (desc = entry.desc /\ head = entry.head)

\* a successful run in which the tag checkout had rewritten the descriptor
C2_Witness ==
    /\ CreatedVersion
    /\ artifact.made
    /\ old_version_file # entry.desc

(***************************************************************************)
(* C3.  Every command that reports non-success aborts the operation with   *)
(* an execution error naming that command and no later step runs; _run     *)
(* never returns normally for a result that is not ok.                     *)
(***************************************************************************)
C3_FailurePropagates ==
    /\ firstFail # NoFail =>
          /\ phase = "aborted"
          /\ error.kind \in {"UnexpectedExit", "Failed to run command"}
          /\ error.cmd = firstFail.cmd
          /\ Len(trace) = firstFail.pos
    /\ ~(~lastRun.ok /\ lastRun.outcome \in {"string", "none"})

(***************************************************************************)
(* C4.  When _load_versioned_code(V) returns, versioned_code/version-V     *)
(* exists and versioned_code/great_expectations-V does not.                *)
(***************************************************************************)
C4_DirectoryNormalized ==
    CodeLoaded =>
        /\ code[VersionEntry(Last.arg)].present
        /\ ~code[RepoEntry(Last.arg)].present

C4_Witness ==
    /\ CodeLoaded
    /\ ~before[VersionEntry(Last.arg)].present
    /\ code[VersionEntry(Last.arg)] = TagTree
    /\ ~code[RepoEntry(Last.arg)].present

(***************************************************************************)
(* C5.  When version-V exists before _load_versioned_code(V), the load     *)
(* replaces it: afterwards version-V is exactly the tag archive's tree.    *)
(***************************************************************************)
C5_ExistingDirectoryReplaced ==
    (CodeLoaded /\ before[VersionEntry(Last.arg)].present) =>
        code[VersionEntry(Last.arg)] = TagTree

(***************************************************************************)
(* C6.  Whatever the local state before, _load_all_versioned_docs leaves   *)
(* a versioned_code whose listing is the archive's alone, and returns the  *)
(* archive's versions; two calls in succession leave the same listing and  *)
(* return the same versions.                                               *)
(***************************************************************************)
C6_CleanRebuild ==
    /\ \A k \in 1..Len(loads) :
          /\ Listing(loads[k].code) = ArchiveListing
          /\ \A e \in ArchiveListing : loads[k].code[e] = S3Tree
          /\ loads[k].versions = ParseVersions(archive.versions)
    /\ \A j, k \in 1..Len(loads) :
          loads[k].pos = loads[j].pos + 1 =>
              /\ loads[k].code = loads[j].code
              /\ loads[k].versions = loads[j].versions

\* two calls in succession, the first over a stale local directory
C6_Witness ==
    /\ Len(loads) = 2
    /\ loads[2].pos = loads[1].pos + 1
    /\ loads[1].pos = 3
    /\ ArchiveListing # {}
    /\ phase = "done"

(***************************************************************************)
(* C7.  If the docs:version command, the load of the tag's code,           *)
(* prepare_prior_version or the zip packaging fails, create_version        *)
(* aborts with the tag checked out and the generated descriptor in place,  *)
(* and neither restore has run.                                            *)
(***************************************************************************)
Window == {"docs_version", "load_versioned_code", "prepare_prior_versions", "zip"}

C7_NoRollback ==
    (op = "create_version"
       /\ \E k \in 1..Len(Ran) : Ran[k].step \in Window /\ ~Ran[k].ok) =>
        /\ phase = "aborted"
        /\ head = VersionToString(version)
        /\ desc = GeneratedContent(version)
        /\ Pos("restore_release_version") = 0
        /\ Pos("checkout_previous") = 0

(***************************************************************************)
(* C8.  In create_version the tag checkout precedes the read of the old    *)
(* descriptor, which precedes its overwrite; docs:version, the code load   *)
(* and prepare_prior_version precede the zip; the artifact is packaged     *)
(* with the tag checked out and the generated descriptor in place; the     *)
(* descriptor restore precedes the branch restore; the final validation    *)
(* starts after both and never after a failed step.                        *)
(***************************************************************************)
C8_StepOrder ==
    op = "create_version" =>
        /\ Precedes("checkout_version", "read_prior_release_version_file")
        /\ Precedes("read_prior_release_version_file", "write_release_version")
        /\ Precedes("docs_version", "zip")
        /\ Precedes("load_versioned_code", "zip")
        /\ Precedes("prepare_prior_versions", "zip")
        /\ artifact.made =>
              /\ artifact.head = VersionToString(version)
              /\ artifact.desc = GeneratedContent(version)
        /\ Precedes("restore_release_version", "checkout_previous")
        /\ Precedes("checkout_previous", "invoke_api_docs")
        /\ Precedes("invoke_api_docs", "yarn_build")
        /\ Pos("invoke_api_docs") > 0 =>
              \A k \in 1..(Pos("invoke_api_docs") - 1) : Ran[k].ok

(***************************************************************************)
(* C9.  The commit and branch recorded by the constructor are never        *)
(* reassigned, and after create_version or _prepare completes              *)
(* successfully the working directory is the one at entry, which is the    *)
(* directory given at construction.                                        *)
(***************************************************************************)
C9_WorkingDirectoryRestored ==
    /\ phase \in {"ready", "running", "done", "serving"} =>
          (current_commit = "c0" /\ current_branch = "develop")
    /\ CreatedVersion => (cwd = entry.cwd /\ cwd = current_directory)
    /\ (op = "build_docs_locally" /\ ip > Len(PrepareSteps) /\ firstFail = NoFail) =>
          (cwd = entry.cwd /\ cwd = current_directory)

(***************************************************************************)
(* C10.  yarn start is invoked only after load-files,                      *)
(* prepare_prior_versions, the API-doc generator and                       *)
(* _checkout_correct_branch have run in that order, and then the           *)
(* checked-out ref is the recorded branch when is_local and the recorded   *)
(* commit otherwise.                                                       *)
(***************************************************************************)
C10_CheckoutBeforeServing ==
    Pos("yarn_start") > 0 =>
        /\ Precedes("load_all_versioned_docs", "prepare_prior_versions")
        /\ Precedes("prepare_prior_versions", "invoke_api_docs")
        /\ Precedes("invoke_api_docs", "checkout_correct_branch")
        /\ Precedes("checkout_correct_branch", "yarn_start")
        /\ head = IF is_local THEN current_branch ELSE current_commit
====
